---- MODULE Spec2Model ----
(***************************************************************************)
(* A model of the PING Python SDK client (sdk/python/ping/client.py):      *)
(* the PingClient object's fields, its key handling, registration and the  *)
(* construction, serialization and signing of message envelopes in send.   *)
(*                                                                         *)
(* Python values are tagged records, a dict is the sequence of its         *)
(* <<key, value>> pairs in insertion order, and a str that is only passed  *)
(* around is a TLA+ string.  Strings hold no character json.dumps would    *)
(* escape.  Ed25519 is ideal: a verify key and a signature are symbolic    *)
(* terms over the seed and the signed bytes.                               *)
(***************************************************************************)
EXTENDS Integers, Sequences, FiniteSets, TLC

VARIABLES
    NACL_AVAILABLE,  \* module flag: the nacl import succeeded
    constructed,     \* __init__ returned (FALSE: it raised, there is no client)
    agent_id,        \* self.agent_id, "" when not registered
    signing_key,     \* self._signing_key: <<>> for None, else the 32-byte seed
    public_key,      \* self._public_key, "" when unset
    registered_key,  \* history: publicKey posted by the register call that set agent_id
    lastOp           \* history: the last call, its outcome, the HTTP requests it
                     \* made and, for a send that got to sign, what it signed and posted

vars == <<NACL_AVAILABLE, constructed, agent_id, signing_key, public_key,
          registered_key, lastOp>>

-----------------------------------------------------------------------------
(* Bounds of the model.                                                    *)

MaxTime == 2

-----------------------------------------------------------------------------
(* Python values.                                                          *)

PyNone == [t |-> "None"]
PyStr(s) == [t |-> "str", v |-> s]
PyInt(n) == [t |-> "int", v |-> n]
PyBool(b) == [t |-> "bool", v |-> b]
PyList(items) == [t |-> "list", v |-> items]
PyDict(pairs) == [t |-> "dict", v |-> pairs]
\* a value json.dumps has no encoding for (a set, bytes, an arbitrary object)
PyObj == [t |-> "object"]

\* bool(v): the test behind `x or y` and `if x`
Truthy(v) ==
    CASE v.t = "None" -> FALSE
      [] v.t = "str" -> Len(v.v) # 0
      [] v.t = "int" -> v.v # 0
      [] v.t = "bool" -> v.v
      [] v.t \in {"list", "dict"} -> v.v # <<>>
      [] OTHER -> TRUE

\* x or y
Or(x, y) == IF Truthy(x) THEN x ELSE y

Keys(d) == {d.v[i][1] : i \in 1..Len(d.v)}

Get(d, k) == (CHOOSE i \in 1..Len(d.v) : d.v[i][1] = k) \* index of key k
Item(d, k) == d.v[Get(d, k)][2]

\* d[k] = val on a dict: an existing key keeps its place, a new key goes last
DictSet(d, k, val) ==
    IF k \in Keys(d)
    THEN PyDict([i \in 1..Len(d.v) |-> IF d.v[i][1] = k THEN <<k, val>> ELSE d.v[i]])
    ELSE PyDict(Append(d.v, <<k, val>>))

\* {**d, k: val}
Merge(d, k, val) == DictSet(d, k, val)

-----------------------------------------------------------------------------
(* json.dumps with its defaults: separators ", " and ": ", keys in the     *)
(* dict's own (insertion) order, no sort_keys.                             *)

\* json.dumps raises TypeError on a value it cannot encode
RECURSIVE Serializable(_)
Serializable(v) ==
    CASE v.t = "object" -> FALSE
      [] v.t = "list" -> \A i \in 1..Len(v.v) : Serializable(v.v[i])
      [] v.t = "dict" -> \A i \in 1..Len(v.v) : Serializable(v.v[i][2])
      [] OTHER -> TRUE

RECURSIVE Join(_)
Join(parts) ==
    IF parts = <<>> THEN ""
    ELSE IF Len(parts) = 1 THEN parts[1]
    ELSE parts[1] \o ", " \o Join(Tail(parts))

RECURSIVE dumps(_)
dumps(v) ==
    CASE v.t = "None" -> "null"
      [] v.t = "bool" -> IF v.v THEN "true" ELSE "false"
      [] v.t = "int" -> ToString(v.v)
      [] v.t = "str" -> "\"" \o v.v \o "\""
      [] v.t = "list" -> "[" \o Join([i \in 1..Len(v.v) |-> dumps(v.v[i])]) \o "]"
      [] v.t = "dict" ->
           "{" \o Join([i \in 1..Len(v.v) |->
                          "\"" \o v.v[i][1] \o "\": " \o dumps(v.v[i][2])]) \o "}"

-----------------------------------------------------------------------------
(* Keys: hex decoding and the (ideal) Ed25519 primitives of PyNaCl.        *)

\* nacl.bindings.crypto_sign_SEEDBYTES, the length SigningKey demands of a seed
SEEDBYTES == 32

HexDigits == {"0", "1", "2", "3", "4", "5", "6", "7", "8", "9",
              "a", "b", "c", "d", "e", "f", "A", "B", "C", "D", "E", "F"}

HexVal(c) ==
    CASE c \in {"a", "A"} -> 10 [] c \in {"b", "B"} -> 11 [] c \in {"c", "C"} -> 12
      [] c \in {"d", "D"} -> 13 [] c \in {"e", "E"} -> 14 [] c \in {"f", "F"} -> 15
      [] c = "0" -> 0 [] c = "1" -> 1 [] c = "2" -> 2 [] c = "3" -> 3 [] c = "4" -> 4
      [] c = "5" -> 5 [] c = "6" -> 6 [] c = "7" -> 7 [] c = "8" -> 8 [] c = "9" -> 9

\* HexEncoder.decode (binascii.unhexlify) accepts: an even number of hex digits
IsHex(s) == Len(s) % 2 = 0 /\ \A i \in 1..Len(s) : s[i] \in HexDigits

\* HexEncoder.decode: the bytes of a hex string (a sequence of characters)
Unhex(s) == [i \in 1..(Len(s) \div 2) |-> 16 * HexVal(s[2 * i - 1]) + HexVal(s[2 * i])]

\* SigningKey(private_key, encoder=HexEncoder) returns a key (else it raises)
ValidPrivateKey(s) == IsHex(s) /\ Len(Unhex(s)) = SEEDBYTES

\* signing_key.verify_key.encode(encoder=HexEncoder).decode()
VerifyKeyHex(sk) == "vk" \o ToString(sk)

\* signing_key.sign(msg_bytes).signature.hex()
SignHex(sk, msg_bytes) == "sig(" \o VerifyKeyHex(sk) \o "," \o msg_bytes \o ")"

-----------------------------------------------------------------------------
(* Errors a call can end with.                                             *)

OK == "ok"
\* PingError("PyNaCl not installed. Run: pip install pynacl", 500)
ErrNoNacl == "PingError: PyNaCl not installed"
\* PingError("Must register first (call register())", 400)
ErrMustRegister == "PingError: Must register first"
\* PingError("Must generate or set keys first", 400)
ErrMustKeys == "PingError: Must generate or set keys first"
\* what SigningKey raises on a seed that is not hex or not SEEDBYTES long
ErrBadKey == "SigningKey: invalid key"
\* what json.dumps raises on a value it cannot encode
ErrNotSerializable == "TypeError: not JSON serializable"
\* PingError(error_data.get("error", str(e)), e.code), from an HTTPError
ErrHttp == "PingError: HTTP error"

-----------------------------------------------------------------------------
(* Inputs: what callers, the clock, the random source and the server may   *)
(* supply.                                                                 *)

KeyStr(c, n) == [i \in 1..n |-> c]

\* private_key arguments: two good keys (one also in upper case), one too
\* short, one of odd length, one that is not hex, and the empty string
PrivateKeys ==
    {PyStr(KeyStr("a", 2 * SEEDBYTES)), PyStr(KeyStr("A", 2 * SEEDBYTES)),
     PyStr(KeyStr("1", 2 * SEEDBYTES)), PyStr(KeyStr("a", 2 * SEEDBYTES - 2)),
     PyStr(KeyStr("a", 2 * SEEDBYTES - 1)), PyStr(KeyStr("g", 2 * SEEDBYTES)),
     PyStr(<<>>)}

\* what SigningKey.generate() may draw
GeneratedSeeds == {Unhex(KeyStr("1", 2 * SEEDBYTES)), Unhex(KeyStr("c", 2 * SEEDBYTES))}

\* ids the server hands out on POST /agents
ServerIds == {"alice", "dave"}

\* outcomes of urlopen: a 2xx response carrying data, or an HTTPError
Responses == {[ok |-> TRUE, id |-> i] : i \in ServerIds} \cup {[ok |-> FALSE, id |-> ""]}

\* int(time.time() * 1000)
Timestamps == 1..MaxTime

-----------------------------------------------------------------------------
(* History records.                                                        *)

\* _request: the request urlopen is given; data is <<>> when body is None
Request(method, path, body) ==
    [method |-> method, path |-> path, body |-> body,
     data |-> IF body.t = "None" THEN <<>> ELSE <<dumps(body)>>]

\* the fields of the client object
Fields == [agent_id |-> agent_id, signing_key |-> signing_key, public_key |-> public_key]

\* the call just made: its name, how it ended, the HTTP requests it issued,
\* the payload / private_key it was given (PyNone when it takes none), the
\* client's fields when it was called, and signed: <<>>, or for a send that
\* reached _sign, <<what it signed>>
Call(op, err, requests, payload, private_key) ==
    [op |-> op, err |-> err, requests |-> requests,
     payload |-> payload, private_key |-> private_key,
     before |-> Fields, signed |-> <<>>]

-----------------------------------------------------------------------------
(* Preconditions                                                           *)

\* mutant: the availability check left out
require_nacl_unchecked == OK

\* if not NACL_AVAILABLE: raise PingError(...)
require_nacl == IF ~NACL_AVAILABLE THEN ErrNoNacl ELSE OK

\* _require_agent
require_agent == IF agent_id = "" THEN ErrMustRegister ELSE OK

\* mutant: the key check tests the agent id, as _require_agent does
require_keys_testing_agent == IF agent_id = "" THEN ErrMustKeys ELSE OK

\* _require_keys
require_keys == IF signing_key = <<>> THEN ErrMustKeys ELSE OK

-----------------------------------------------------------------------------
(* PingClient.__init__                                                     *)

\* how set_keys(private_key) ends
SetKeysOutcome(private_key) ==
    IF require_nacl # OK THEN require_nacl
    ELSE IF ~ValidPrivateKey(private_key.v) THEN ErrBadKey
    ELSE OK

Init ==
    /\ NACL_AVAILABLE \in BOOLEAN
    /\ \E private_key \in {PyNone} \cup PrivateKeys, aid \in {PyNone, PyStr("alice")} :
        LET calls == Truthy(private_key)       \* if private_key: self.set_keys(...)
            err == IF calls THEN SetKeysOutcome(private_key) ELSE OK
            loaded == calls /\ err = OK
            id == Or(aid, PyStr("")).v
        IN  /\ agent_id = id
            /\ signing_key = IF loaded THEN Unhex(private_key.v) ELSE <<>>
            /\ public_key = IF loaded THEN VerifyKeyHex(Unhex(private_key.v)) ELSE ""
            /\ constructed = (err = OK)
            /\ registered_key = ""
            /\ lastOp = [op |-> "__init__", err |-> err, requests |-> <<>>,
                         payload |-> PyNone, private_key |-> private_key,
                         before |-> [agent_id |-> id, signing_key |-> <<>>,
                                     public_key |-> ""],
                         signed |-> <<>>]

-----------------------------------------------------------------------------
(* Keys                                                                    *)

generate_keys(seed) ==
    /\ constructed
    /\ IF require_nacl # OK
       THEN /\ lastOp' = Call("generate_keys", require_nacl, <<>>, PyNone, PyNone)
            /\ UNCHANGED <<signing_key, public_key>>
       ELSE /\ signing_key' = seed
            /\ public_key' = VerifyKeyHex(seed)
            /\ lastOp' = Call("generate_keys", OK, <<>>, PyNone, PyNone)
    /\ UNCHANGED <<NACL_AVAILABLE, constructed, agent_id, registered_key>>

\* mutant: the held key is dropped before the new one is decoded
set_keys_dropping_first(private_key) ==
    /\ constructed
    /\ LET err == SetKeysOutcome(private_key)
       IN  /\ IF err = OK
              THEN /\ signing_key' = Unhex(private_key.v)
                   /\ public_key' = VerifyKeyHex(Unhex(private_key.v))
              ELSE IF err = ErrBadKey
              THEN signing_key' = <<>> /\ public_key' = ""
              ELSE UNCHANGED <<signing_key, public_key>>
           /\ lastOp' = Call("set_keys", err, <<>>, PyNone, private_key)
    /\ UNCHANGED <<NACL_AVAILABLE, constructed, agent_id, registered_key>>

set_keys(private_key) ==
    /\ constructed
    /\ LET err == SetKeysOutcome(private_key)
       IN  /\ IF err = OK
              THEN /\ signing_key' = Unhex(private_key.v)
                   /\ public_key' = VerifyKeyHex(Unhex(private_key.v))
              ELSE UNCHANGED <<signing_key, public_key>>
           /\ lastOp' = Call("set_keys", err, <<>>, PyNone, private_key)
    /\ UNCHANGED <<NACL_AVAILABLE, constructed, agent_id, registered_key>>

-----------------------------------------------------------------------------
(* Agents                                                                  *)

register(name, seed, resp) ==
    /\ constructed
    /\ LET generates == public_key = ""        \* if not self._public_key
           raises == generates /\ require_nacl # OK
           sk == IF generates THEN seed ELSE signing_key
           pk == IF generates THEN VerifyKeyHex(seed) ELSE public_key
           body == PyDict(<< <<"publicKey", PyStr(pk)>>, <<"name", PyStr(name)>>,
                             <<"provider", PyStr("python")>>,
                             <<"capabilities", Or(PyNone, PyList(<<>>))>>,
                             <<"webhookUrl", PyNone>>, <<"isPublic", PyBool(FALSE)>> >>)
       IN  IF raises
           THEN /\ lastOp' = Call("register", require_nacl, <<>>, PyNone, PyNone)
                /\ UNCHANGED <<agent_id, signing_key, public_key, registered_key>>
           ELSE /\ signing_key' = sk
                /\ public_key' = pk
                /\ IF resp.ok
                   THEN /\ agent_id' = resp.id
                        /\ registered_key' = pk
                   ELSE UNCHANGED <<agent_id, registered_key>>
                /\ lastOp' = Call("register", IF resp.ok THEN OK ELSE ErrHttp,
                                  <<Request("POST", "/agents", body)>>, PyNone, PyNone)
    /\ UNCHANGED <<NACL_AVAILABLE, constructed>>

\* mutant: deleting the agent also forgets its keys
delete_agent_forgetting_keys(resp) ==
    /\ constructed
    /\ IF require_agent # OK
       THEN /\ lastOp' = Call("delete_agent", require_agent, <<>>, PyNone, PyNone)
            /\ UNCHANGED <<agent_id, registered_key, signing_key, public_key>>
       ELSE /\ IF resp.ok
               THEN /\ agent_id' = "" /\ registered_key' = ""
                    /\ signing_key' = <<>> /\ public_key' = ""
               ELSE UNCHANGED <<agent_id, registered_key, signing_key, public_key>>
            /\ lastOp' = Call("delete_agent", IF resp.ok THEN OK ELSE ErrHttp,
                              <<Request("DELETE", "/agents/" \o agent_id, PyNone)>>,
                              PyNone, PyNone)
    /\ UNCHANGED <<NACL_AVAILABLE, constructed>>

delete_agent(resp) ==
    /\ constructed
    /\ IF require_agent # OK
       THEN /\ lastOp' = Call("delete_agent", require_agent, <<>>, PyNone, PyNone)
            /\ UNCHANGED <<agent_id, registered_key>>
       ELSE /\ IF resp.ok
               THEN agent_id' = "" /\ registered_key' = ""
               ELSE UNCHANGED <<agent_id, registered_key>>
            /\ lastOp' = Call("delete_agent", IF resp.ok THEN OK ELSE ErrHttp,
                              <<Request("DELETE", "/agents/" \o agent_id, PyNone)>>,
                              PyNone, PyNone)
    /\ UNCHANGED <<NACL_AVAILABLE, constructed, signing_key, public_key>>

-----------------------------------------------------------------------------
(* Directory, contacts, inbox: calls that only read the client's fields    *)

\* the calls that start with self._require_agent()
AgentCalls == {"contacts", "add_contact", "remove_contact", "inbox", "history"}
\* the calls that do not
OpenCalls == {"get_agent", "directory", "search", "ack"}

Method(op) ==
    CASE op \in {"add_contact", "ack"} -> "POST"
      [] op = "remove_contact" -> "DELETE"
      [] OTHER -> "GET"

Path(op) ==
    CASE op = "get_agent" -> "/agents/bob"
      [] op = "directory" -> "/directory"
      [] op = "search" -> "/directory/search"
      [] op = "ack" -> "/messages/m1/ack"
      [] op \in {"contacts", "add_contact"} -> "/agents/" \o agent_id \o "/contacts"
      [] op = "remove_contact" -> "/agents/" \o agent_id \o "/contacts/bob"
      [] op = "inbox" -> "/agents/" \o agent_id \o "/inbox"
      [] op = "history" -> "/agents/" \o agent_id \o "/messages/bob?limit=50"

Body(op) ==
    IF op = "add_contact"
    THEN PyDict(<< <<"contactId", PyStr("bob")>>, <<"alias", PyNone>>, <<"notes", PyNone>> >>)
    ELSE PyNone

agent_call(op, resp) ==
    /\ constructed
    /\ lastOp' = IF require_agent # OK
                 THEN Call(op, require_agent, <<>>, PyNone, PyNone)
                 ELSE Call(op, IF resp.ok THEN OK ELSE ErrHttp,
                           <<Request(Method(op), Path(op), Body(op))>>, PyNone, PyNone)
    /\ UNCHANGED <<NACL_AVAILABLE, constructed, agent_id, signing_key, public_key,
                   registered_key>>

open_call(op, resp) ==
    /\ constructed
    /\ lastOp' = Call(op, IF resp.ok THEN OK ELSE ErrHttp,
                      <<Request(Method(op), Path(op), Body(op))>>, PyNone, PyNone)
    /\ UNCHANGED <<NACL_AVAILABLE, constructed, agent_id, signing_key, public_key,
                   registered_key>>

-----------------------------------------------------------------------------
(* Messages                                                                *)

ContentFields == {"type", "from", "to", "payload", "replyTo", "timestamp"}

\* mutant: the payload argument is ignored, every message carries {}
Message_ignoring_payload(msg_type, from, to, payload, reply_to, ts) ==
    PyDict(<< <<"type", PyStr(msg_type)>>, <<"from", PyStr(from)>>, <<"to", PyStr(to)>>,
              <<"payload", PyDict(<<>>)>>, <<"replyTo", reply_to>>,
              <<"timestamp", PyInt(ts)>> >>)

\* the dict literal of send, keys in the order it writes them
Message(msg_type, from, to, payload, reply_to, ts) ==
    PyDict(<< <<"type", PyStr(msg_type)>>, <<"from", PyStr(from)>>, <<"to", PyStr(to)>>,
              <<"payload", Or(payload, PyDict(<<>>))>>, <<"replyTo", reply_to>>,
              <<"timestamp", PyInt(ts)>> >>)

\* mutant: only the payload is serialized for signing
msg_bytes_payload_only(message) == dumps(Item(message, "payload"))

\* the bytes _sign signs: json.dumps(message).encode("utf-8")
msg_bytes(message) == dumps(message)

\* _sign; called only where self._signing_key is set
sign(message) == SignHex(signing_key, msg_bytes(message))

\* mutant: fields that are None are left out of the posted body
Envelope_dropping_nulls(message, signature) ==
    Merge(PyDict(SelectSeq(message.v, LAMBDA p : p[2].t # "None")),
          "signature", PyStr(signature))

\* the body send hands to _request: {**message, "signature": signature}
Envelope(message, signature) == Merge(message, "signature", PyStr(signature))

\* send, from its preconditions to the return of _request: the call's record
SendCall(to, msg_type, payload, reply_to, ts, resp) ==
    LET message == Message(msg_type, agent_id, to, payload, reply_to, ts)
    IN  IF require_agent # OK
        THEN Call("send", require_agent, <<>>, payload, PyNone)
        ELSE IF require_keys # OK
        THEN Call("send", require_keys, <<>>, payload, PyNone)
        ELSE IF ~Serializable(message)           \* json.dumps in _sign raises
        THEN Call("send", ErrNotSerializable, <<>>, payload, PyNone)
        ELSE LET signature == sign(message)
                 body == Envelope(message, signature)
             IN  [Call("send", IF resp.ok THEN OK ELSE ErrHttp,
                       <<Request("POST", "/messages", body)>>, payload, PyNone)
                  EXCEPT !.signed = << [message |-> message,
                                        bytes |-> msg_bytes(message),
                                        signature |-> signature,
                                        signer |-> public_key,
                                        registered |-> registered_key] >>]

\* mutant: an error response makes the client forget its agent id
send_resetting_agent(to, msg_type, payload, reply_to, ts, resp) ==
    /\ constructed
    /\ lastOp' = SendCall(to, msg_type, payload, reply_to, ts, resp)
    /\ agent_id' = IF SendCall(to, msg_type, payload, reply_to, ts, resp).err = ErrHttp
                   THEN "" ELSE agent_id
    /\ UNCHANGED <<NACL_AVAILABLE, constructed, signing_key, public_key, registered_key>>

send(to, msg_type, payload, reply_to, ts, resp) ==
    /\ constructed
    /\ lastOp' = SendCall(to, msg_type, payload, reply_to, ts, resp)
    /\ UNCHANGED <<NACL_AVAILABLE, constructed, agent_id, signing_key, public_key,
                   registered_key>>

(* Convenience methods: each is one call of send.                          *)

text(to, txt, ts, resp) ==
    send(to, "text", PyDict(<< <<"text", PyStr(txt)>> >>), PyNone, ts, resp)

ping(to, ts, resp) == send(to, "ping", PyDict(<<>>), PyNone, ts, resp)

pong(to, reply_to, ts, resp) == send(to, "pong", PyDict(<<>>), reply_to, ts, resp)

request(to, action, data, ts, resp) ==
    send(to, "request", PyDict(<< <<"action", PyStr(action)>>, <<"data", data>> >>),
         PyNone, ts, resp)

respond(to, result, reply_to, ts, resp) ==
    send(to, "response", PyDict(<< <<"result", result>> >>), reply_to, ts, resp)

propose(to, proposal, ts, resp) == send(to, "proposal", proposal, PyNone, ts, resp)

signature(to, sig, reply_to, ts, resp) ==
    send(to, "signature", PyDict(<< <<"signature", PyStr(sig)>> >>), reply_to, ts, resp)

-----------------------------------------------------------------------------
(* The client under any sequence of calls.                                 *)

\* payloads a caller hands to send: none, empty, a text, one json cannot encode
Payloads ==
    {PyNone, PyDict(<<>>), PyDict(<< <<"text", PyStr("Hello!")>> >>),
     PyDict(<< <<"blob", PyObj>> >>)}

ReplyTos == {PyNone, PyStr("m1")}

Next ==
    \/ \E seed \in GeneratedSeeds : generate_keys(seed)
    \/ \E private_key \in PrivateKeys : set_keys(private_key)
    \/ \E seed \in GeneratedSeeds, resp \in Responses : register("My Agent", seed, resp)
    \/ \E resp \in Responses : delete_agent(resp)
    \/ \E op \in AgentCalls, resp \in Responses : agent_call(op, resp)
    \/ \E op \in OpenCalls, resp \in Responses : open_call(op, resp)
    \/ \E payload \in Payloads, reply_to \in ReplyTos, ts \in Timestamps, resp \in Responses :
          send("bob", "text", payload, reply_to, ts, resp)
    \/ \E ts \in Timestamps, resp \in Responses : text("bob", "Hello!", ts, resp)
    \/ \E ts \in Timestamps, resp \in Responses : ping("bob", ts, resp)
    \/ \E ts \in Timestamps, resp \in Responses : pong("bob", PyStr("m1"), ts, resp)
    \/ \E data \in {PyNone, PyObj}, ts \in Timestamps, resp \in Responses :
          request("bob", "sum", data, ts, resp)
    \/ \E ts \in Timestamps, resp \in Responses : respond("bob", PyInt(3), PyStr("m1"), ts, resp)
    \/ \E ts \in Timestamps, resp \in Responses :
          propose("bob", PyDict(<< <<"psbt", PyStr("70736274")>> >>), ts, resp)
    \/ \E ts \in Timestamps, resp \in Responses : signature("bob", "3045", PyStr("m1"), ts, resp)

Spec == Init /\ [][Next]_vars

-----------------------------------------------------------------------------
(* Serialization and signing: a client built with a key and an agent id,   *)
(* under any sequence of send calls whose fields vary one by one.          *)

SignPayloads ==
    {PyNone,
     PyDict(<< <<"a", PyInt(1)>>, <<"b", PyInt(2)>> >>),
     PyDict(<< <<"b", PyInt(2)>>, <<"a", PyInt(1)>> >>),
     PyDict(<< <<"a", PyInt(1)>>, <<"b", PyInt(3)>> >>),
     PyDict(<< <<"n", PyDict(<< <<"a", PyInt(1)>>, <<"b", PyNone>> >>)>> >>),
     PyDict(<< <<"n", PyDict(<< <<"b", PyNone>>, <<"a", PyInt(1)>> >>)>> >>),
     PyDict(<< <<"text", PyStr("Hello!")>> >>),
     PyDict(<< <<"text", PyStr("Hello?")>> >>)}

InitSign == Init /\ NACL_AVAILABLE /\ constructed /\ agent_id # "" /\ signing_key # <<>>

NextSign ==
    \E to \in {"bob", "carol"}, msg_type \in {"text", "ping"}, payload \in SignPayloads,
       reply_to \in ReplyTos, ts \in Timestamps, resp \in Responses :
        send(to, msg_type, payload, reply_to, ts, resp)

SpecSign == InitSign /\ [][NextSign]_vars

-----------------------------------------------------------------------------
(* Properties.                                                             *)

\* verify_key.verify(msg_bytes, signature) of the ideal scheme: sig is the
\* signature the holder of pk's seed makes over msg
Verify(pk, msg, sig) == sig = "sig(" \o pk \o "," \o msg \o ")"

\* a == b on Python values: dicts compare as mappings, whatever the insertion order
RECURSIVE PyEq(_, _)
PyEq(a, b) ==
    IF a.t # b.t THEN FALSE
    ELSE CASE a.t = "dict" ->
                /\ Keys(a) = Keys(b)
                /\ \A k \in Keys(a) : PyEq(Item(a, k), Item(b, k))
           [] a.t = "list" ->
                /\ Len(a.v) = Len(b.v)
                /\ \A i \in 1..Len(a.v) : PyEq(a.v[i], b.v[i])
           [] a.t \in {"None", "object"} -> TRUE
           [] OTHER -> a.v = b.v

\* d without its key k
Without(d, k) == PyDict(SelectSeq(d.v, LAMBDA p : p[1] # k))

IsSend == lastOp.op = "send"
Transmitted == lastOp.requests # <<>>
KeyUnset(f) == f.signing_key = <<>>

\* C1: two sends whose six content fields are logically equal (dicts compared
\* as mappings) sign the same bytes, whatever order the keys of the message
\* or of a mapping inside payload were inserted in.
C1_SameContentSameBytes ==
    [][(/\ lastOp.signed # <<>>
        /\ lastOp'.signed # <<>>
        /\ PyEq(lastOp.signed[1].message, lastOp'.signed[1].message))
       => lastOp'.signed[1].bytes = lastOp.signed[1].bytes]_vars

\* C2: a send that transmits posts one request, to /messages; what it signed
\* is the serialization of a mapping with exactly the six content fields and
\* no signature; the posted body is that mapping plus the one field
\* signature, which is the held key's signature over those bytes.
C2_SignedContentIsPostedContent ==
    (IsSend /\ Transmitted) =>
        /\ Len(lastOp.requests) = 1
        /\ lastOp.signed # <<>>
        /\ LET req == lastOp.requests[1]
               s == lastOp.signed[1]
           IN  /\ req.method = "POST" /\ req.path = "/messages"
               /\ Keys(s.message) = ContentFields
               /\ Len(s.message.v) = Cardinality(ContentFields)
               /\ s.bytes = dumps(Without(req.body, "signature"))
               /\ s.signature = SignHex(lastOp.before.signing_key, s.bytes)
               /\ Keys(req.body) = ContentFields \cup {"signature"}
               /\ Len(req.body.v) = Cardinality(ContentFields) + 1
               /\ Item(req.body, "signature") = PyStr(s.signature)
               /\ \A k \in ContentFields : Item(req.body, k) = Item(s.message, k)
               /\ Item(req.body, "from") = PyStr(lastOp.before.agent_id)
               /\ req.data = <<dumps(req.body)>>

\* C2 witness: a send with no payload given went out and was accepted
C2_Witness ==
    /\ IsSend /\ Transmitted /\ lastOp.err = OK
    /\ lastOp.payload = PyNone
    /\ Item(lastOp.requests[1].body, "payload") = PyDict(<<>>)

C4_NoKeyFailsKeyNotConfigured ==
    (IsSend /\ KeyUnset(lastOp.before)) =>
        /\ lastOp.err = ErrMustKeys
        /\ lastOp.signed = <<>>
        /\ lastOp.requests = <<>>

\* C4 amended: a send made while no key is held fails with a precondition
\* error, signs nothing and transmits nothing; the error is the
\* must-register-first one when agent_id is empty (that check comes first)
\* and the key-not-configured one when agent_id is set.
C4_NoKeyFailsPrecondition ==
    (IsSend /\ KeyUnset(lastOp.before)) =>
        /\ lastOp.err = IF lastOp.before.agent_id = "" THEN ErrMustRegister ELSE ErrMustKeys
        /\ lastOp.signed = <<>>
        /\ lastOp.requests = <<>>

\* C4 witness: a registered client without a key tried to send
C4_Witness ==
    /\ IsSend /\ KeyUnset(lastOp.before) /\ lastOp.before.agent_id # ""
    /\ lastOp.err = ErrMustKeys

\* the held key is None or a seed; the public key is set exactly when it is
KeyTwoStates ==
    /\ Len(signing_key) \in {0, SEEDBYTES}
    /\ (signing_key = <<>>) <=> (public_key = "")

\* C5 as stated: the key goes from unset to set only in generate_keys or
\* set_keys called by the caller (the constructor's set_keys counted with
\* them), and once set it is never unset.
C5_SetOnlyByCallersKeyCalls ==
    /\ KeyTwoStates
    /\ (KeyUnset(lastOp.before) /\ ~KeyUnset(Fields))
          => lastOp.op \in {"__init__", "generate_keys", "set_keys"}
    /\ ~KeyUnset(lastOp.before) => ~KeyUnset(Fields)

\* C5 amended: the key goes from unset to set only in generate_keys or
\* set_keys called by the caller (the constructor's set_keys counted with
\* them) or in register called while no public key is held, which calls
\* generate_keys itself; once set it is never unset.
C5_SetOnlyByKeyCallsOrRegister ==
    /\ KeyTwoStates
    /\ (KeyUnset(lastOp.before) /\ ~KeyUnset(Fields))
          => \/ lastOp.op \in {"__init__", "generate_keys", "set_keys"}
             \/ lastOp.op = "register" /\ lastOp.before.public_key = ""
    /\ ~KeyUnset(lastOp.before) => ~KeyUnset(Fields)

\* C5 witness: register set the key of a client that had none
C5_Witness ==
    lastOp.op = "register" /\ KeyUnset(lastOp.before) /\ ~KeyUnset(Fields)

C8_NoNaclNoKeys ==
    ~NACL_AVAILABLE =>
        /\ KeyUnset(Fields) /\ public_key = ""
        /\ KeyUnset(lastOp.before)
        /\ (\/ lastOp.op \in {"generate_keys", "set_keys", "register"}
            \/ lastOp.op = "__init__" /\ Truthy(lastOp.private_key))
              => lastOp.err = ErrNoNacl /\ lastOp.requests = <<>>
        /\ (lastOp.op = "__init__" /\ Truthy(lastOp.private_key)) => ~constructed
        /\ IsSend => /\ lastOp.err \in {ErrMustRegister, ErrMustKeys}
                     /\ lastOp.signed = <<>>
                     /\ lastOp.requests = <<>>

\* C8 witness: register was tried without the library
C8_Witness ==
    ~NACL_AVAILABLE /\ lastOp.op = "register" /\ lastOp.err = ErrNoNacl

\* C9: after a send, however it ended, agent_id, the signing key and the
\* public key are what they were when it was called.
C9_SendKeepsFields == IsSend => Fields = lastOp.before

\* C9 witness: a send got an error response
C9_Witness == IsSend /\ Transmitted /\ lastOp.err = ErrHttp

\* C10: a message transmitted under an agent id that a register call of this
\* client produced is signed with the key whose public key that register
\* call submitted.
C10_SignerIsRegisteredKey ==
    (IsSend /\ Transmitted /\ lastOp.signed # <<>>) =>
        (lastOp.signed[1].registered # ""
            => lastOp.signed[1].signer = lastOp.signed[1].registered)

====
